---------------------------- MODULE Spec2Model ----------------------------
(***************************************************************************)
(* A model of wrfpy: the WPS preprocessing pipeline (src/wps.py) and the   *)
(* cylc suite.rc generator (src/wrfpy/wrfpy.py).                           *)
(***************************************************************************)
EXTENDS Integers, Sequences, FiniteSets, TLC

(***************************************************************************)
(* Bounds of the model.                                                    *)
(***************************************************************************)
\* _get_ext_list is run for every num in 0..SmallNum ...
SmallNum == 30
\* ... and for every num within Margin of the two capacities under discussion.
Margin == 1
\* a boundary directory lists at most MaxFiles entries
MaxFiles == 2

(***************************************************************************)
(* wps._get_ext_list (src/wps.py:100-126)                                  *)
(***************************************************************************)
VARIABLES
  num,        \* the argument of _get_ext_list
  filenum,    \* the loop variable of "for filenum in range(num)"
  i1, i2, i3, \* the three counters
  list_len,   \* len(list_ext); 0 while list_ext is still unbound
  list_last,  \* list_ext[-1], the identifier appended last
  list_prev,  \* list_ext[-2], the identifier appended before it
  ext_pc      \* "loop", "returned", "IOError" or "UnboundLocalError"

allocVars == <<num, filenum, i1, i2, i3, list_len, list_last, list_prev, ext_pc>>

\* The state of the working directory and of one run of wps.__init__
VARIABLES
  wd,          \* the entries of wps_workdir other than namelist.wps
  nml,         \* the namelist document stored in namelist.wps
  pc,          \* the step wps.__init__ starts next, or "Idle", "Done", "Failed"
  started,     \* the steps the current run has started, in order
  error,       \* the exception that left wps.__init__, "none" if none did
  child_error, \* the exception subprocess.check_call raised in this run
  datestart,   \* the arguments of wps.__init__
  dateend,
  filelist,    \* the regular files glob listed in boundary_dir (line 88)
  nml_before,  \* the namelist document as _prepare_namelist found it
  grib_before  \* the GRIBFILE.* entries wps_workdir held when the run began

\* the state of a run, apart from the directory
runVars ==
  <<nml, pc, started, error, child_error, datestart, dateend, filelist,
    nml_before, grib_before>>

wpsVars == <<wd, runVars>>

\* Calls of _link_vtable and _link_tbl_files on a directory the user edits
VARIABLES
  tbl_op,      \* what was done last: "none", "user", "link_vtable", "link_tbl_files"
  tbl_before,  \* wps_workdir as the last call found it
  tbl_error    \* the exception the last call raised, "none" if none

tblVars == <<tbl_op, tbl_before, tbl_error>>

\* wrfpy._create_cylc_config
VARIABLES
  config,      \* the configuration read from config.json
  suiterc,     \* the sections of suite.rc rendered so far, in order
  cylc_pc,     \* the section rendered next, or "write", "done", "failed"
  cylc_error,  \* the exception that left _create_cylc_config
  written,     \* what suite.rc holds on disk: the sections that reached it
  written_before  \* what suite.rc held when _create_cylc_config was called

cylcVars == <<config, suiterc, cylc_pc, cylc_error, written, written_before>>

notAlloc == <<wpsVars, tblVars, cylcVars>>
notWps == <<allocVars, tblVars, cylcVars>>
notTbl == <<allocVars, runVars, cylcVars>>
notCylc == <<allocVars, wpsVars, tblVars>>

\* string.ascii_uppercase, as the list ext of line 107
ext ==
  <<"A", "B", "C", "D", "E", "F", "G", "H", "I", "J", "K", "L", "M",
    "N", "O", "P", "Q", "R", "S", "T", "U", "V", "W", "X", "Y", "Z">>

\* len(ascii_uppercase)
NLetters == Len(ext)

\* A bug ExtName could have: the counters concatenated least significant first.
ExtNameReversed(c) == <<ext[c.i1 + 1], ext[c.i2 + 1], ext[c.i3 + 1]>>

\* line 112/114: ext[i3] + ext[i2] + ext[i1], a string of three letters
\* (Python indexes from 0, TLA+ from 1)
ExtName(c) == <<ext[c.i3 + 1], ext[c.i2 + 1], ext[c.i1 + 1]>>

\* lines 115-125: the counters after one iteration; raised when line 125 raises
ExtAdvance(c) ==
  IF c.i1 + 1 >= NLetters
    THEN IF c.i2 + 1 >= NLetters
           THEN [i1 |-> 1, i2 |-> 1, i3 |-> c.i3 + 1,
                 raised |-> (c.i3 + 1 >= NLetters)]
           ELSE [i1 |-> 1, i2 |-> c.i2 + 1, i3 |-> c.i3, raised |-> FALSE]
    ELSE [i1 |-> c.i1 + 1, i2 |-> c.i2, i3 |-> c.i3, raised |-> FALSE]

\* The whole call, for the callers of the model: the loop of lines 109-125 run
\* from counters c with list_ext = acc, then line 126.
RECURSIVE ExtLoop(_, _, _, _)
ExtLoop(k, n, c, acc) ==
  IF k >= n
    THEN IF acc = << >> THEN [status |-> "UnboundLocalError", list |-> << >>]
                        ELSE [status |-> "ok", list |-> acc]
    ELSE LET a == ExtAdvance(c) IN
         IF a.raised THEN [status |-> "IOError", list |-> << >>]
                     ELSE ExtLoop(k + 1, n, a, Append(acc, ExtName(c)))

get_ext_list(n) == ExtLoop(0, n, [i1 |-> 0, i2 |-> 0, i3 |-> 0], << >>)

\* The position of a letter in the alphabet, and the order of Python's string
\* comparison on three-letter strings.
LetterRank(ch) == CHOOSE k \in 1..NLetters : ext[k] = ch

LexLess(a, b) ==
  \/ LetterRank(a[1]) < LetterRank(b[1])
  \/ a[1] = b[1] /\ LetterRank(a[2]) < LetterRank(b[2])
  \/ a[1] = b[1] /\ a[2] = b[2] /\ LetterRank(a[3]) < LetterRank(b[3])

\* The smallest num for which the code raises 'Too many files to link': the 26
\* names of the block AA?, then 25 names for each of the 25 further values of
\* the middle counter, for each of the 26 values of the leading counter.
FirstFailing == NLetters + NLetters * (NLetters - 1) * (NLetters - 1)

\* The capacity the specification states, 26 x 26 x 25.
ClaimedCapacity == NLetters * NLetters * (NLetters - 1)

NumInputs ==
  (0..SmallNum)
    \cup ((FirstFailing - Margin)..(FirstFailing + Margin))
    \cup ((ClaimedCapacity - Margin)..(ClaimedCapacity + Margin))

NoName == << >>

AllocInit ==
  /\ num \in NumInputs
  /\ filenum = 0
  /\ i1 = 0 /\ i2 = 0 /\ i3 = 0
  /\ list_len = 0
  /\ list_last = NoName
  /\ list_prev = NoName
  /\ ext_pc = "loop"

\* One iteration of the loop, lines 109-125.
ExtAppend ==
  /\ ext_pc = "loop"
  /\ filenum < num
  /\ LET c == [i1 |-> i1, i2 |-> i2, i3 |-> i3]
         a == ExtAdvance(c)
     IN  /\ list_prev' = list_last
         /\ list_last' = ExtName(c)
         /\ list_len' = list_len + 1
         /\ i1' = a.i1 /\ i2' = a.i2 /\ i3' = a.i3
         /\ IF a.raised
              THEN ext_pc' = "IOError" /\ filenum' = filenum
              ELSE ext_pc' = "loop" /\ filenum' = filenum + 1
  /\ UNCHANGED num
  /\ UNCHANGED notAlloc

\* Line 126, reached when range(num) is exhausted.
ExtReturn ==
  /\ ext_pc = "loop"
  /\ filenum >= num
  /\ ext_pc' = IF list_len = 0 THEN "UnboundLocalError" ELSE "returned"
  /\ UNCHANGED <<num, filenum, i1, i2, i3, list_len, list_last, list_prev>>
  /\ UNCHANGED notAlloc

(***************************************************************************)
(* The WPS working directory and the steps of wps.__init__                 *)
(* (src/wps.py:23-97 and 129-220)                                          *)
(***************************************************************************)
\* A directory entry: nothing, a regular file, or a symbolic link to a path.
Absent == [kind |-> "absent", target |-> ""]
RegularFile == [kind |-> "file", target |-> ""]
Link(path) == [kind |-> "link", target |-> path]

\* A name in wps_workdir is a pair <<stem, rest>>, the file name being the
\* stem followed by the pieces of rest.
Grib(id) == <<"GRIBFILE.", id>>
Exact(stem) == <<stem, << >> >>
Dated(stem) == <<stem, <<"2014-07-27_00">> >>
Vtable == Exact("Vtable")
GeogridTbl == Exact("geogrid/GEOGRID.TBL")
MetgridTbl == Exact("metgrid/METGRID.TBL")

\* The GRIBFILE names a directory of at most MaxFiles files can need.
GribNames == {Grib(get_ext_list(MaxFiles).list[k]) : k \in 1..MaxFiles}

\* The intermediate files of ungrib and metgrid (FILE:<date>, PFILE:<date>,
\* PRES:<date>), and files named by the bare prefixes.
TransientNames ==
  {Exact("FILE:"), Dated("FILE:"), Exact("PFILE:"), Dated("PFILE:"),
   Dated("PRES:")}

TableNames == {Vtable, GeogridTbl, MetgridTbl}

WdNames == GribNames \cup TransientNames \cup TableNames

\* glob patterns: a stem, followed or not by the wildcard *
Pattern(stem, star) == [stem |-> stem, star |-> star]

\* fnmatch of a name against a pattern: * matches any rest, the empty one too;
\* without it the name must be the stem itself.
Matches(pat, name) == name[1] = pat.stem /\ (pat.star \/ name[2] = << >>)

\* glob.glob(os.path.join(wps_workdir, pat)): the entries present that match
glob(d, pat) == {n \in DOMAIN d : d[n].kind # "absent" /\ Matches(pat, n)}

\* utils.silentremove: os.remove, a missing file being no error
silentremove(d, n) == [d EXCEPT ![n] = Absent]

\* line 47: ['GRIBFILE.*', 'FILE:', 'PFILE:', 'PRES:']
CleanPatterns ==
  <<Pattern("GRIBFILE.", TRUE), Pattern("FILE:", FALSE),
    Pattern("PFILE:", FALSE), Pattern("PRES:", FALSE)>>

\* _clean_boundaries_wps, lines 46-51: every globbed file is removed
clean_boundaries_wps(d) ==
  LET files_flat == UNION {glob(d, CleanPatterns[k]) : k \in DOMAIN CleanPatterns}
  IN  [n \in DOMAIN d |-> IF n \in files_flat THEN silentremove(d, n)[n] ELSE d[n]]

(***************************************************************************)
(* _prepare_namelist (src/wps.py:54-79)                                    *)
(***************************************************************************)
\* The values f90nml can give for share.max_dom: an integer, a logical
\* (.true./.false., a Python bool), a real, a character string.
IntVal(n) == [type |-> "int", val |-> n]
BoolVal(b) == [type |-> "bool", val |-> IF b THEN 1 ELSE 0]
RealVal(n) == [type |-> "float", val |-> n]
StrVal(n) == [type |-> "str", val |-> n]

MaxDomValues == {IntVal(0), IntVal(1), IntVal(2), BoolVal(TRUE), RealVal(2), StrVal(2)}

\* isinstance(ndoms, int): bool is a subclass of int
isinstance_int(v) == v.type \in {"int", "bool"}

\* The values passed as datestart and dateend: datetime instances and a plain
\* string.
Datetime(y, mo, d, h) ==
  [type |-> "datetime", year |-> y, month |-> mo, day |-> d, hour |-> h,
   minute |-> 0, second |-> 0]
PlainString(y, mo, d, h) ==
  [type |-> "str", year |-> y, month |-> mo, day |-> d, hour |-> h,
   minute |-> 0, second |-> 0]

DateArgs ==
  {<<Datetime(2014, 7, 27, 0), Datetime(2014, 7, 27, 6)>>,
   <<Datetime(2014, 12, 31, 18), Datetime(2015, 1, 1, 0)>>,
   <<PlainString(2014, 7, 27, 0), Datetime(2014, 7, 27, 6)>>,
   <<Datetime(2014, 7, 27, 0), PlainString(2014, 7, 27, 6)>>}

\* %m, %d, %H, %M, %S: two digits, zero padded
Pad2(n) == IF n < 10 THEN "0" \o ToString(n) ELSE ToString(n)

\* datetime.strftime(dt, '%Y-%m-%d_%H:%M:%S')
strftime(dt) ==
  ToString(dt.year) \o "-" \o Pad2(dt.month) \o "-" \o Pad2(dt.day) \o "_"
    \o Pad2(dt.hour) \o ":" \o Pad2(dt.minute) \o ":" \o Pad2(dt.second)

\* [x] * n
Repeat(x, n) == [k \in 1..n |-> x]

\* _prepare_namelist on the document doc read from namelist.wps: the document
\* the file holds afterwards, and the exception raised
prepare_namelist(doc, ds, de) ==
  LET ndoms == doc.max_dom
  IN  IF ~(isinstance_int(ndoms) /\ ndoms.val > 0)
        THEN [doc |-> doc, error |-> "ValueError"]
        ELSE IF ~(ds.type = "datetime" /\ de.type = "datetime")
          THEN [doc |-> doc, error |-> "TypeError"]
          ELSE [doc |-> [doc EXCEPT !.start_date = Repeat(strftime(ds), ndoms.val),
                                    !.end_date = Repeat(strftime(de), ndoms.val)],
                error |-> "none"]

(***************************************************************************)
(* _link_boundary_files (src/wps.py:81-97)                                 *)
(***************************************************************************)
\* What boundary_dir can hold: regular files and a subdirectory.
BoundaryEntries ==
  {[path |-> "gfs.f000", isfile |-> TRUE], [path |-> "gfs.f003", isfile |-> TRUE],
   [path |-> "gfs.f006", isfile |-> TRUE], [path |-> "gfs.f009", isfile |-> TRUE],
   [path |-> "archive", isfile |-> FALSE]}

\* The listings glob can return: the entries of the directory in any order.
Listings ==
  {l \in UNION {[1..n -> BoundaryEntries] : n \in 0..MaxFiles} :
     \A a, b \in DOMAIN l : a # b => l[a] # l[b]}

isfile_entry(e) == e.isfile

\* os.symlink(src, dst) for idx in range(len(filelist)), in order; the first
\* destination that exists already raises OSError (EEXIST) and ends the loop.
RECURSIVE symlink_all(_, _, _, _)
symlink_all(d, files, linkext, idx) ==
  IF idx > Len(files)
    THEN [wd |-> d, error |-> "none"]
    ELSE LET dst == Grib(linkext[idx]) IN
         IF d[dst].kind # "absent"
           THEN [wd |-> d, error |-> "OSError"]
           ELSE symlink_all([d EXCEPT ![dst] = Link(files[idx].path)],
                            files, linkext, idx + 1)

\* A bug the pairing of line 96 could have: every link made to the first file.
link_boundary_files_first_only(d, files) ==
  IF Len(files) = 0
    THEN [wd |-> d, error |-> "IOError"]
    ELSE LET linkext == get_ext_list(Len(files)) IN
         IF linkext.status # "ok"
           THEN [wd |-> d, error |-> linkext.status]
           ELSE symlink_all(d, [k \in 1..Len(files) |-> files[1]], linkext.list, 1)

\* lines 89-97, files being the list of line 88
link_boundary_files(d, files) ==
  IF Len(files) = 0
    THEN [wd |-> d, error |-> "IOError"]
    ELSE LET linkext == get_ext_list(Len(files)) IN
         IF linkext.status # "ok"
           THEN [wd |-> d, error |-> linkext.status]
           ELSE symlink_all(d, files, linkext.list, 1)

(***************************************************************************)
(* _link_vtable and _link_tbl_files (src/wps.py:129-160)                   *)
(***************************************************************************)
\* The paths links point at: the canonical tables under wps_dir, a table of
\* the user's own, and a path at which there is no file.
VtablePath == "ungrib/Variable_Tables/Vtable.GFS"
GeogridSrc == "geogrid/GEOGRID.TBL.ARW"
MetgridSrc == "metgrid/METGRID.TBL.ARW"
UserTable == "user/custom.TBL"
NoSuchPath == "user/removed.TBL"
ExistingPaths == {VtablePath, GeogridSrc, MetgridSrc, UserTable}

\* os.path.isfile follows symbolic links
isfile(d, n) ==
  \/ d[n].kind = "file"
  \/ d[n].kind = "link" /\ d[n].target \in ExistingPaths

\* os.symlink(src, dst): OSError (EEXIST) when dst is there, a dangling link
\* included
symlink(d, src, dst) ==
  IF d[dst].kind # "absent"
    THEN [wd |-> d, error |-> "OSError"]
    ELSE [wd |-> [d EXCEPT ![dst] = Link(src)], error |-> "none"]

\* lines 133-138: the old Vtable is removed, then linked anew
link_vtable(d) == symlink(silentremove(d, Vtable), VtablePath, Vtable)

\* A bug _link_tbl_files could have: linking the way _link_vtable does,
\* whatever is there.
link_tbl_files_relink(d) ==
  LET g == symlink(silentremove(d, GeogridTbl), GeogridSrc, GeogridTbl)
  IN  symlink(silentremove(g.wd, MetgridTbl), MetgridSrc, MetgridTbl)

\* lines 146-160; utils._create_directory leaves an existing directory alone
link_tbl_files(d) ==
  LET g == IF ~isfile(d, GeogridTbl)
             THEN symlink(d, GeogridSrc, GeogridTbl)
             ELSE [wd |-> d, error |-> "none"]
  IN  IF g.error # "none"
        THEN g
        ELSE IF ~isfile(g.wd, MetgridTbl)
               THEN symlink(g.wd, MetgridSrc, MetgridTbl)
               ELSE g

(***************************************************************************)
(* _run_geogrid, _run_ungrib, _run_metgrid (src/wps.py:163-220)            *)
(***************************************************************************)
\* What a stage finds: whether options_slurm names a batch script for it,
\* whether the configuration has the section 'slurm' line 168 reads, whether
\* the script or executable exists, and the exit status of the child process.
StageInputs ==
  [slurm : BOOLEAN, slurm_section : BOOLEAN, exists : BOOLEAN, status : {0, 1}]

\* utils.check_file_exists
check_file_exists(exists) == IF exists THEN "none" ELSE "InputAbsent"

\* subprocess.check_call(command): the exception it raises.  A command given
\* as one string without shell=True names the program to execute, so
\* 'sbatch <script>' is no program: OSError.
check_call(in) ==
  IF in.slurm THEN "OSError"
  ELSE IF in.status # 0 THEN "CalledProcessError"
  ELSE "none"

\* try: ... except CalledProcessError: ... raise.  wps.py imports subprocess
\* but never the name CalledProcessError, so evaluating the except clause of
\* a raised exception raises NameError in its place.
except_clause(raised) == IF raised = "none" THEN "none" ELSE "NameError"

\* One stage: the exception check_call raised and the one that leaves the
\* method.
run_stage(in) ==
  LET found == IF in.slurm /\ ~in.slurm_section
                 THEN "KeyError"
                 ELSE check_file_exists(in.exists)
  IN  IF found # "none"
        THEN [raised |-> "none", error |-> found]
        ELSE [raised |-> check_call(in), error |-> except_clause(check_call(in))]

(***************************************************************************)
(* wps.__init__ (src/wps.py:23-38): one run of the pipeline                *)
(***************************************************************************)
\* A bug the order of lines 32-38 could have: the boundaries linked before
\* the namelist is prepared.
StepOrderSwapped ==
  <<"Clean", "LinkBoundaries", "PatchNamelist", "RunGeogrid", "LinkTables",
    "RunUngrib", "RunMetgrid">>

\* lines 32-38, by the names the design gives the steps
StepOrder ==
  <<"Clean", "PatchNamelist", "LinkBoundaries", "RunGeogrid", "LinkTables",
    "RunUngrib", "RunMetgrid">>

\* The step that follows step s when s raised nothing.
NextStep(s) ==
  LET k == CHOOSE j \in DOMAIN StepOrder : StepOrder[j] = s
  IN  IF k = Len(StepOrder) THEN "Done" ELSE StepOrder[k + 1]

\* Step s ends: with the exception err the run is over, without one the next
\* statement of __init__ is reached.
Finish(s, err) ==
  /\ started' = Append(started, s)
  /\ IF err = "none"
       THEN pc' = NextStep(s) /\ error' = error
       ELSE pc' = "Failed" /\ error' = err

\* What a working directory can hold when the first run starts: any leftover
\* of earlier work, the tables not linked yet.
InitialDirs ==
  {d \in [WdNames -> {Absent, RegularFile, Link("old/gfs.f000")}] :
     /\ \A n \in TableNames : d[n] = Absent
     /\ \A n \in GribNames : d[n] # RegularFile
     /\ \A n \in TransientNames : d[n].kind # "link"}

OldStart == <<"2006-08-16_12:00:00">>
OldEnd == <<"2006-08-16_18:00:00">>

WpsIdle ==
  /\ pc = "Idle"
  /\ started = << >>
  /\ error = "none"
  /\ child_error = "none"
  /\ datestart = Datetime(2014, 7, 27, 0)
  /\ dateend = Datetime(2014, 7, 27, 6)
  /\ filelist = << >>

WpsInit ==
  /\ wd \in InitialDirs
  /\ nml \in [max_dom : MaxDomValues, start_date : {OldStart}, end_date : {OldEnd}]
  /\ nml_before = nml
  /\ grib_before = {}
  /\ WpsIdle

\* lines 23-31: wps(boundary_dir, datestart, dateend) is constructed
NewRun ==
  /\ pc \in {"Idle", "Done", "Failed"}
  /\ \E args \in DateArgs : datestart' = args[1] /\ dateend' = args[2]
  /\ pc' = StepOrder[1]
  /\ started' = << >>
  /\ error' = "none"
  /\ child_error' = "none"
  /\ filelist' = << >>
  /\ nml_before' = nml
  /\ grib_before' = glob(wd, Pattern("GRIBFILE.", TRUE))
  /\ UNCHANGED <<wd, nml>>
  /\ UNCHANGED notWps

\* line 32
CleanBoundaries ==
  /\ pc = "Clean"
  /\ wd' = clean_boundaries_wps(wd)
  /\ Finish("Clean", "none")
  /\ UNCHANGED <<nml, child_error, datestart, dateend, filelist, nml_before, grib_before>>
  /\ UNCHANGED notWps

\* line 33
PrepareNamelist ==
  /\ pc = "PatchNamelist"
  /\ LET r == prepare_namelist(nml, datestart, dateend)
     IN  nml' = r.doc /\ Finish("PatchNamelist", r.error)
  /\ nml_before' = nml
  /\ UNCHANGED <<wd, child_error, datestart, dateend, filelist, grib_before>>
  /\ UNCHANGED notWps

\* line 34; lines 86-88 list the regular files of boundary_dir
LinkBoundaryFiles ==
  /\ pc = "LinkBoundaries"
  /\ \E listing \in Listings :
       LET files == SelectSeq(listing, isfile_entry)
           r == link_boundary_files(wd, files)
       IN  /\ filelist' = files
           /\ wd' = r.wd
           /\ Finish("LinkBoundaries", r.error)
  /\ UNCHANGED <<nml, child_error, datestart, dateend, nml_before, grib_before>>
  /\ UNCHANGED notWps

\* lines 35, 37 and 38: a stage that completes leaves the files produced
Stage(s, produced) ==
  /\ \E in \in StageInputs :
       LET r == run_stage(in)
       IN  /\ child_error' = r.raised
           /\ wd' = IF r.error = "none"
                      THEN [n \in DOMAIN wd |-> IF n \in produced THEN RegularFile ELSE wd[n]]
                      ELSE wd
           /\ Finish(s, r.error)
  /\ UNCHANGED <<nml, datestart, dateend, filelist, nml_before, grib_before>>
  /\ UNCHANGED notWps

RunGeogrid ==
  /\ pc = "RunGeogrid"
  /\ Stage("RunGeogrid", {})

\* ungrib writes its intermediate files FILE:<date>
RunUngrib ==
  /\ pc = "RunUngrib"
  /\ Stage("RunUngrib", {Dated("FILE:")})

RunMetgrid ==
  /\ pc = "RunMetgrid"
  /\ Stage("RunMetgrid", {})

\* line 36
LinkVtable ==
  /\ pc = "LinkTables"
  /\ LET r == link_vtable(wd)
     IN  wd' = r.wd /\ Finish("LinkTables", r.error)
  /\ UNCHANGED <<nml, child_error, datestart, dateend, filelist, nml_before, grib_before>>
  /\ UNCHANGED notWps

AllocIdle ==
  /\ num = 0
  /\ filenum = 0
  /\ i1 = 0 /\ i2 = 0 /\ i3 = 0
  /\ list_len = 0
  /\ list_last = NoName
  /\ list_prev = NoName
  /\ ext_pc = "idle"

(***************************************************************************)
(* wrfpy._create_cylc_config (src/wrfpy/wrfpy.py:75-357)                   *)
(***************************************************************************)
\* An entry of config['options_slurm']: missing from the dictionary, or a
\* string, the path of a batch script or the empty string.
MissingEntry == [kind |-> "missing", path |-> ""]
StrEntry(path) == [kind |-> "str", path |-> path]

\* The batch scripts on disk and their lines; no file is at "gone.slurm".
ReadableScripts == {"job.slurm"}
ScriptLines(path) == <<"#SBATCH -t 30", "#SBATCH -n 24">>

SlurmEntries ==
  {MissingEntry, StrEntry(""), StrEntry("job.slurm"), StrEntry("gone.slurm")}

Configs ==
  [slurm_real : SlurmEntries, slurm_wrf : SlurmEntries,
   slurm_obsproc : SlurmEntries,
   date_start : {Datetime(2014, 7, 27, 0), Datetime(2014, 7, 27, 6)},
   date_end : {Datetime(2014, 7, 28, 0)},
   run_hours : {1, 6}]

\* myfile.read().replace('\n', '\n      '), the text being held as its lines:
\* every line after the first gains the six spaces
Reindent(lines) ==
  [k \in DOMAIN lines |-> IF k = 1 THEN lines[k] ELSE "      " \o lines[k]]

\* A node of a graph line, task[offset]
Node(task, offset) == [task |-> task, offset |-> offset]
Now(task) == Node(task, "")

\* A variant of the template without copy_urb in the repeating graph.
SchedulingNoCopyUrb(cfg) ==
  [section |-> "scheduling",
   initial |->
     [recurrence |-> "R1/T" \o Pad2(cfg.date_start.hour),
      graph |-> << <<Now("wrf_init"), Now("wrf_real"), Now("wrfda"), Now("wrf_run")>>,
                   <<Now("wrf_init"), Now("obsproc_init"), Now("obsproc_run")>>,
                   <<Now("obsproc_run"), Now("wrfda")>> >>],
   repeating |->
     [recurrence |-> "+PT" \o ToString(cfg.run_hours) \o "H/PT"
                       \o ToString(cfg.run_hours) \o "H",
      graph |-> << <<Node("wrf_run", "-PT2H"), Now("wrf_init"), Now("wrf_real"),
                     Now("wrfda"), Now("wrf_run")>>,
                   <<Now("wrf_init"), Now("obsproc_init"), Now("obsproc_run")>>,
                   <<Now("obsproc_run"), Now("wrfda")>> >>]]

\* _scheduling, lines 116-151: the two recurrences and the lines of their
\* graphs, each line a chain a => b => c
Scheduling(cfg) ==
  [section |-> "scheduling",
   initial |->
     [recurrence |-> "R1/T" \o Pad2(cfg.date_start.hour),
      graph |-> << <<Now("wrf_init"), Now("wrf_real"), Now("wrfda"), Now("wrf_run")>>,
                   <<Now("wrf_init"), Now("obsproc_init"), Now("obsproc_run")>>,
                   <<Now("obsproc_run"), Now("wrfda")>> >>],
   repeating |->
     [recurrence |-> "+PT" \o ToString(cfg.run_hours) \o "H/PT"
                       \o ToString(cfg.run_hours) \o "H",
      graph |-> << <<Node("wrf_run", "-PT2H"), Now("wrf_init"), Now("wrf_real"),
                     Now("wrfda"), Now("copy_urb"), Now("wrf_run")>>,
                   <<Now("wrf_init"), Now("obsproc_init"), Now("obsproc_run")>>,
                   <<Now("obsproc_run"), Now("wrfda")>> >>]]

\* The edges a graph section states: a => b for neighbours of a line
Edges(graph) ==
  UNION {{<<graph[l][k], graph[l][k + 1]>> : k \in 1..(Len(graph[l]) - 1)} :
           l \in DOMAIN graph}

\* The tasks a graph section names
Tasks(graph) ==
  UNION {{graph[l][k].task : k \in DOMAIN graph[l]} : l \in DOMAIN graph}

\* A runtime block [[name]] with its job submission method and directives
\* ("" and << >> where the block states none)
Block(name, method, directives) ==
  [section |-> "runtime", name |-> name, method |-> method,
   directives |-> directives]

\* A bug the test of lines 225, 266, 301 could have: any entry that is
\* there, the empty string too, selects slurm.
RuntimeExecAnyString(name, entry) ==
  IF entry.kind = "missing"
    THEN [block |-> Block(name, "", << >>), error |-> "KeyError"]
    ELSE IF entry.path \notin ReadableScripts \cup {""}
           THEN [block |-> Block(name, "", << >>), error |-> "IOError"]
           ELSE [block |-> Block(name, "slurm",
                                 IF entry.path = "" THEN << >>
                                 ELSE Reindent(ScriptLines(entry.path))),
                 error |-> "none"]

\* _runtime_real, _runtime_wrf, _runtime_obsproc (lines 225-238, 266-279,
\* 301-315): the block rendered and the exception raised.  Subscripting the
\* dictionary with a key it lacks raises KeyError; open() of a path without a
\* file raises IOError.
RuntimeExec(name, entry) ==
  IF entry.kind = "missing"
    THEN [block |-> Block(name, "", << >>), error |-> "KeyError"]
    ELSE IF entry.path # ""
      THEN IF entry.path \in ReadableScripts
             THEN [block |-> Block(name, "slurm", Reindent(ScriptLines(entry.path))),
                   error |-> "none"]
             ELSE [block |-> Block(name, "", << >>), error |-> "IOError"]
      ELSE [block |-> Block(name, "background", << >>), error |-> "none"]

\* utils.datetime_to_string(dt, format='%Y%m%d%H')
datetime_to_string(dt) ==
  ToString(dt.year) \o Pad2(dt.month) \o Pad2(dt.day) \o Pad2(dt.hour)

\* _header, lines 88-114
Header(cfg) ==
  [section |-> "header", START |-> datetime_to_string(cfg.date_start),
   STOP |-> datetime_to_string(cfg.date_end)]

\* The order in which _create_cylc_config renders: lines 81-84 and, for the
\* runtime blocks, lines 158-160
RenderOrder ==
  <<"header", "scheduling", "root", "init", "wrf_real", "wrf_run",
    "obsproc_run", "wrfda", "visualization">>

\* What follows a section rendered without an exception.
AfterRender(step) ==
  LET k == CHOOSE j \in DOMAIN RenderOrder : RenderOrder[j] = step
  IN  IF k = Len(RenderOrder) THEN "write" ELSE RenderOrder[k + 1]

\* A section is rendered and joins the text, or the exception err leaves
\* _create_cylc_config.
Render(step, sec, err) ==
  /\ IF err = "none"
       THEN /\ suiterc' = Append(suiterc, sec)
            /\ cylc_pc' = AfterRender(step)
            /\ cylc_error' = cylc_error
       ELSE /\ suiterc' = suiterc
            /\ cylc_pc' = "failed"
            /\ cylc_error' = err
  /\ UNCHANGED <<config, written, written_before>>
  /\ UNCHANGED notCylc

\* The text lines 81-84 put together for a configuration whose batch
\* scripts, where it names any, can all be read.
SuiteRcOf(cfg) ==
  <<Header(cfg), Scheduling(cfg), Block("root", "background", << >>),
    Block("init", "", << >>), RuntimeExec("wrf_real", cfg.slurm_real).block,
    RuntimeExec("wrf_run", cfg.slurm_wrf).block,
    RuntimeExec("obsproc_run", cfg.slurm_obsproc).block,
    Block("wrfda", "", << >>), [section |-> "visualization"]>>

\* The suite.rc an earlier --create left in the suite directory: that of a
\* build without batch scripts, repeating every hour.
EarlierSuiteRc ==
  SuiteRcOf([slurm_real |-> StrEntry(""), slurm_wrf |-> StrEntry(""),
             slurm_obsproc |-> StrEntry(""),
             date_start |-> Datetime(2014, 7, 27, 0),
             date_end |-> Datetime(2014, 7, 28, 0), run_hours |-> 1])

\* line 85, filename: there is no suite.rc yet, or the one of an earlier build
CylcInit ==
  /\ config \in Configs
  /\ suiterc = << >>
  /\ cylc_pc = RenderOrder[1]
  /\ cylc_error = "none"
  /\ written \in {<< >>, EarlierSuiteRc}
  /\ written_before = written

\* line 81
RenderHeader ==
  /\ cylc_pc = "header"
  /\ Render("header", Header(config), "none")

\* line 82
RenderScheduling ==
  /\ cylc_pc = "scheduling"
  /\ Render("scheduling", Scheduling(config), "none")

\* _runtime_base, lines 163-175
RenderRuntimeBase ==
  /\ cylc_pc = "root"
  /\ Render("root", Block("root", "background", << >>), "none")

\* _runtime_init, lines 178-197
RenderRuntimeInit ==
  /\ cylc_pc = "init"
  /\ Render("init", Block("init", "", << >>), "none")

\* _runtime_real, lines 200-238
RenderRuntimeReal ==
  /\ cylc_pc = "wrf_real"
  /\ LET r == RuntimeExec("wrf_real", config.slurm_real)
     IN  Render("wrf_real", r.block, r.error)

\* _runtime_wrf, lines 241-279
RenderRuntimeWrf ==
  /\ cylc_pc = "wrf_run"
  /\ LET r == RuntimeExec("wrf_run", config.slurm_wrf)
     IN  Render("wrf_run", r.block, r.error)

\* _runtime_obsproc, lines 282-315
RenderRuntimeObsproc ==
  /\ cylc_pc = "obsproc_run"
  /\ LET r == RuntimeExec("obsproc_run", config.slurm_obsproc)
     IN  Render("obsproc_run", r.block, r.error)

\* _runtime_wrfda, lines 318-329
RenderRuntimeWrfda ==
  /\ cylc_pc = "wrfda"
  /\ Render("wrfda", Block("wrfda", "", << >>), "none")

\* _visualization, lines 332-343
RenderVisualization ==
  /\ cylc_pc = "visualization"
  /\ Render("visualization", [section |-> "visualization"], "none")

\* _write, lines 346-357.  open(filename, 'w') raises IOError and suite.rc
\* is as it was; or it creates or truncates suite.rc, and then either the
\* whole text is written, or write() or the close of the with-block raises
\* IOError (re-raised, line 356) with only a leading part of the text in the
\* file: the first k sections, none of them when k = 0.
WriteSuiteRc ==
  /\ cylc_pc = "write"
  /\ \/ written' = suiterc /\ cylc_pc' = "done" /\ cylc_error' = cylc_error
     \/ written' = written /\ cylc_pc' = "failed" /\ cylc_error' = "IOError"
     \/ \E k \in 0..(Len(suiterc) - 1) :
          /\ written' = SubSeq(suiterc, 1, k)
          /\ cylc_pc' = "failed"
          /\ cylc_error' = "IOError"
  /\ UNCHANGED <<config, suiterc, written_before>>
  /\ UNCHANGED notCylc

(***************************************************************************)
(* The table linkers called on a directory whose table entries the user    *)
(* may have changed.                                                       *)
(***************************************************************************)
\* What a table entry can be: nothing, a regular file, a link to the
\* canonical source, a link to a table of the user's, a dangling link.
TableEntries(n) ==
  {Absent, RegularFile, Link(UserTable), Link(NoSuchPath),
   Link(IF n = Vtable THEN VtablePath
        ELSE IF n = GeogridTbl THEN GeogridSrc ELSE MetgridSrc)}

\* The user changes a table entry of wps_workdir.
UserRelink ==
  /\ \E n \in TableNames : \E e \in TableEntries(n) :
       /\ wd[n] # e
       /\ wd' = [wd EXCEPT ![n] = e]
  /\ tbl_op' = "user"
  /\ UNCHANGED <<tbl_before, tbl_error>>
  /\ UNCHANGED notTbl

\* self._link_vtable()
CallLinkVtable ==
  /\ LET r == link_vtable(wd)
     IN  wd' = r.wd /\ tbl_error' = r.error
  /\ tbl_before' = wd
  /\ tbl_op' = "link_vtable"
  /\ UNCHANGED notTbl

\* self._link_tbl_files()
CallLinkTblFiles ==
  /\ LET r == link_tbl_files(wd)
     IN  wd' = r.wd /\ tbl_error' = r.error
  /\ tbl_before' = wd
  /\ tbl_op' = "link_tbl_files"
  /\ UNCHANGED notTbl

(***************************************************************************)
(* The specifications: one for each part of the program.  The variables of *)
(* the other parts stay at their idle values.                              *)
(***************************************************************************)
\* No suite.rc is being built.
CylcIdle ==
  /\ config = [slurm_real |-> StrEntry(""), slurm_wrf |-> StrEntry(""),
               slurm_obsproc |-> StrEntry(""),
               date_start |-> Datetime(2014, 7, 27, 0),
               date_end |-> Datetime(2014, 7, 28, 0), run_hours |-> 6]
  /\ suiterc = << >>
  /\ cylc_pc = "idle"
  /\ cylc_error = "none"
  /\ written = << >>
  /\ written_before = << >>

vars == <<allocVars, wpsVars, tblVars, cylcVars>>

\* The working directory while only _get_ext_list is looked at.
WpsUnused ==
  /\ WpsIdle
  /\ wd = [n \in WdNames |-> Absent]
  /\ nml = [max_dom |-> IntVal(1), start_date |-> OldStart, end_date |-> OldEnd]
  /\ nml_before = nml
  /\ grib_before = {}

\* No call of the table linkers yet.
TblIdle ==
  /\ tbl_op = "none"
  /\ tbl_before = [n \in WdNames |-> Absent]
  /\ tbl_error = "none"

InitAlloc == AllocInit /\ WpsUnused /\ TblIdle /\ CylcIdle

AllocNext == ExtAppend \/ ExtReturn

SpecAlloc == InitAlloc /\ [][AllocNext]_vars

InitWps == WpsInit /\ AllocIdle /\ TblIdle /\ CylcIdle

WpsNext ==
  \/ NewRun
  \/ CleanBoundaries
  \/ PrepareNamelist
  \/ LinkBoundaryFiles
  \/ RunGeogrid
  \/ LinkVtable
  \/ RunUngrib
  \/ RunMetgrid

SpecWps == InitWps /\ [][WpsNext]_vars

InitTbl ==
  /\ WpsUnused
  /\ AllocIdle
  /\ TblIdle
  /\ CylcIdle

TblNext == UserRelink \/ CallLinkVtable \/ CallLinkTblFiles

SpecTbl == InitTbl /\ [][TblNext]_vars

InitCylc ==
  /\ CylcInit
  /\ WpsUnused
  /\ AllocIdle
  /\ TblIdle

CylcNext ==
  \/ RenderHeader
  \/ RenderScheduling
  \/ RenderRuntimeBase
  \/ RenderRuntimeInit
  \/ RenderRuntimeReal
  \/ RenderRuntimeWrf
  \/ RenderRuntimeObsproc
  \/ RenderRuntimeWrfda
  \/ RenderVisualization
  \/ WriteSuiteRc

SpecCylc == InitCylc /\ [][CylcNext]_vars

(***************************************************************************)
(* Claims about _get_ext_list, checked under SpecAlloc.                    *)
(***************************************************************************)
\* Every identifier appended after the first is greater, in lexicographic
\* order, than the one appended before it; with that, the list is strictly
\* increasing and its members pairwise distinct.
StrictlyIncreasing == list_len >= 2 => LexLess(list_prev, list_last)

\* C1, as the code has it: for every num with 1 <= num < 16276 the call
\* returns, without an error, a list of exactly num three-letter identifiers,
\* strictly increasing in lexicographic order (hence pairwise distinct); for
\* every num >= 16276 it raises IOError('Too many files to link') and returns
\* nothing.
C1_AllocatorCapacity ==
  /\ StrictlyIncreasing
  /\ (1 <= num /\ num < FirstFailing) =>
       /\ ext_pc \in {"loop", "returned"}
       /\ ext_pc = "returned" => list_len = num /\ Len(list_last) = 3
  /\ num >= FirstFailing => ext_pc \in {"loop", "IOError"}
  /\ ext_pc = "loop" => filenum <= num /\ list_len = filenum

\* C1's case: the largest call that succeeds has returned its 16275 names,
\* the last of them ZZY.
C1_Witness ==
  /\ ext_pc = "returned"
  /\ num = FirstFailing - 1
  /\ list_len = num
  /\ list_last = <<"Z", "Z", "Y">>

\* C1 as stated: success for every num in [1, 16900), the capacity error for
\* every num >= 16900.
C1_AsClaimed ==
  /\ StrictlyIncreasing
  /\ (1 <= num /\ num < ClaimedCapacity) =>
       /\ ext_pc \in {"loop", "returned"}
       /\ ext_pc = "returned" => list_len = num
  /\ num >= ClaimedCapacity => ext_pc \in {"loop", "IOError"}

\* C2: the first identifier is AAA, the 26th is AAZ, and the 27th, the first of
\* the second block, is ABA.
C2_SecondBlockStartsABA ==
  /\ list_len = 1 => list_last = <<"A", "A", "A">>
  /\ list_len = NLetters => list_last = <<"A", "A", "Z">>
  /\ list_len = NLetters + 1 => list_last = <<"A", "B", "A">>

\* What the code returns as the 27th identifier: ABB follows AAZ.
C2_CodeGivesABB ==
  list_len = NLetters + 1 => list_prev = <<"A", "A", "Z">> /\ list_last = <<"A", "B", "B">>

\* The 27th identifier has been appended.
C2_Witness == list_len = NLetters + 1 /\ ext_pc = "returned"

(***************************************************************************)
(* Claims about the pipeline, checked under SpecWps.                       *)
(***************************************************************************)
\* The order the design states.
DesignOrder ==
  <<"Clean", "PatchNamelist", "LinkBoundaries", "RunGeogrid", "LinkTables",
    "RunUngrib", "RunMetgrid">>

\* Step s has been started by the current run and has raised nothing.
Completed(s) ==
  \E k \in DOMAIN started :
    started[k] = s /\ (k < Len(started) \/ pc # "Failed")

\* The steps started so far are the first steps of the design's order, each
\* started after the one before it completed; Done is reached with all seven
\* completed and no error; Failed is reached with the error of the step
\* started last.
C3_OrderSoFar ==
  /\ Len(started) <= Len(DesignOrder)
  /\ \A k \in DOMAIN started : started[k] = DesignOrder[k]
  /\ pc \in {"Idle", "Done", "Failed"}
       \/ (Len(started) < Len(DesignOrder) /\ pc = DesignOrder[Len(started) + 1])
  /\ pc = "Done" => started = DesignOrder /\ error = "none"
  /\ pc = "Failed" <=> error # "none"
  /\ pc = "Failed" => started # << >>

\* A run that failed starts nothing more: the only step that follows is the
\* first step of another run.
C3_FailedStartsNothing ==
  pc = "Failed" =>
    \/ pc' = "Failed" /\ started' = started /\ wd' = wd /\ nml' = nml
    \/ pc' = DesignOrder[1] /\ started' = << >>

\* C3: in every run the steps start in the order Clean, PatchNamelist,
\* LinkBoundaries, RunGeogrid, LinkTables, RunUngrib, RunMetgrid, each only
\* after the previous one completed without error; Done is reached only after
\* all seven completed; once a step raises, the run is Failed and starts no
\* later step.
C3_PipelineOrder == [](C3_OrderSoFar) /\ [][C3_FailedStartsNothing]_vars

\* C3's case: a run in which geogrid failed after three completed steps, so
\* that nothing after RunGeogrid was started.
C3_Witness ==
  /\ pc = "Failed"
  /\ started = <<"Clean", "PatchNamelist", "LinkBoundaries", "RunGeogrid">>
  /\ child_error = "CalledProcessError"

\* C4: immediately after Clean completes, wps_workdir holds no entry matching
\* GRIBFILE.*, FILE:*, PFILE:* or PRES:*, whatever was there before.
C4_CleanLeavesNoTransient ==
  (pc = "PatchNamelist" /\ Completed("Clean")) =>
    \A stem \in {"GRIBFILE.", "FILE:", "PFILE:", "PRES:"} :
      glob(wd, Pattern(stem, TRUE)) = {}

\* What the code's Clean does remove: every GRIBFILE.* entry and the entries
\* named exactly FILE:, PFILE: and PRES:.
C4_CleanRemovesListed ==
  (pc = "PatchNamelist" /\ Completed("Clean")) =>
    /\ glob(wd, Pattern("GRIBFILE.", TRUE)) = {}
    /\ \A stem \in {"FILE:", "PFILE:", "PRES:"} : glob(wd, Pattern(stem, FALSE)) = {}

\* C5: once the current run's LinkBoundaries has completed on a listing of
\* k >= 1 regular files, the GRIBFILE.* entries of wps_workdir are exactly
\* GRIBFILE.<id_1> .. GRIBFILE.<id_k> for the first k identifiers of
\* _get_ext_list, the i-th a link to the i-th listed file; no GRIBFILE.* entry
\* of an earlier run is left.
C5_ExactlyThisRunsLinks ==
  (Completed("LinkBoundaries") /\ Len(filelist) >= 1) =>
    LET ids == get_ext_list(Len(filelist)).list IN
      /\ glob(wd, Pattern("GRIBFILE.", TRUE)) = {Grib(ids[k]) : k \in DOMAIN filelist}
      /\ \A k \in DOMAIN filelist : wd[Grib(ids[k])] = Link(filelist[k].path)
      /\ ids[1] = <<"A", "A", "A">>

\* C5's case: the directory held MaxFiles GRIBFILE entries of earlier work
\* when the run began, and the run has linked a single file.
C5_Witness ==
  /\ Completed("LinkBoundaries")
  /\ Len(filelist) = 1
  /\ Cardinality(grib_before) = MaxFiles
  /\ \E n \in grib_before : wd[n] = Absent

\* C6: when a stage's child process exits with a non-zero status, the error
\* that reaches the caller of the pipeline is that child-process failure
\* itself.
C6_StageFailureUnchanged ==
  child_error = "CalledProcessError" =>
    pc = "Failed" /\ error = "CalledProcessError"

\* What the code does there: the run fails, with NameError.
C6_CodeRaisesNameError ==
  child_error = "CalledProcessError" => pc = "Failed" /\ error = "NameError"

\* The arguments _prepare_namelist must refuse.
IntegerAtLeastOne(v) == v.type = "int" /\ v.val >= 1
InvalidPatchArguments ==
  \/ ~IntegerAtLeastOne(nml_before.max_dom)
  \/ datestart.type # "datetime"
  \/ dateend.type # "datetime"

\* C7: whenever share.max_dom is not an integer >= 1, or startTime or endTime
\* is no calendar timestamp, _prepare_namelist fails with a configuration
\* error and the document stored in namelist.wps is what it was before.
C7_InvalidArgumentsRefused ==
  (Len(started) >= 2 /\ InvalidPatchArguments) =>
    /\ pc = "Failed" /\ Len(started) = 2
    /\ error \in {"ValueError", "TypeError"}
    /\ nml = nml_before

\* What the code does for every value but the logical .true.: refuses, and
\* leaves the document alone.
C7_HoldsButForTrue ==
  (Len(started) >= 2 /\ InvalidPatchArguments /\ nml_before.max_dom # BoolVal(TRUE)) =>
    /\ pc = "Failed" /\ Len(started) = 2
    /\ error \in {"ValueError", "TypeError"}
    /\ nml = nml_before

(***************************************************************************)
(* Claims about the table linkers, checked under SpecTbl.                  *)
(***************************************************************************)
\* The entries an operation is responsible for.
TablesOf(op) ==
  IF op = "link_vtable" THEN {Vtable}
  ELSE IF op = "link_tbl_files" THEN {GeogridTbl, MetgridTbl}
  ELSE {}

\* C8 as stated: for Vtable, GEOGRID.TBL and METGRID.TBL alike, an entry
\* present when the link operation is called is left as it was, a
\* user-modified link included, and the call does not fail.
C8_PresentEntryUntouched ==
  \A n \in TablesOf(tbl_op) :
    tbl_before[n].kind # "absent" => wd[n] = tbl_before[n] /\ tbl_error = "none"

\* C8, as the code has it.  _link_tbl_files leaves GEOGRID.TBL or METGRID.TBL
\* exactly as it was whenever the entry is a regular file or a link that
\* resolves to one, a link of the user's included, and with both such entries
\* it changes nothing and does not fail; an entry that is there without
\* resolving to a file (a dangling link) is left alone too, but the call
\* fails on it with OSError.  _link_vtable is no no-op: it removes the entry
\* and always leaves a link to the canonical Vtable.GFS, without failing.
\* Either operation called again leaves the state its first call left.
C8_TableLinking ==
  /\ tbl_op = "link_tbl_files" =>
       /\ \A n \in TablesOf(tbl_op) :
            tbl_before[n].kind # "absent" => wd[n] = tbl_before[n]
       /\ (\A n \in TablesOf(tbl_op) : isfile(tbl_before, n)) =>
            wd = tbl_before /\ tbl_error = "none"
       /\ tbl_error # "none" =>
            /\ tbl_error = "OSError"
            /\ \E n \in TablesOf(tbl_op) :
                 tbl_before[n].kind = "link" /\ ~isfile(tbl_before, n)
       /\ \A n \in WdNames \ TablesOf(tbl_op) : wd[n] = tbl_before[n]
       /\ link_tbl_files(wd).wd = wd
  /\ tbl_op = "link_vtable" =>
       /\ wd[Vtable] = Link(VtablePath)
       /\ tbl_error = "none"
       /\ \A n \in WdNames \ {Vtable} : wd[n] = tbl_before[n]
       /\ link_vtable(wd).wd = wd

\* C8's case: _link_tbl_files was called on a directory whose GEOGRID.TBL was
\* a link to the user's own table while METGRID.TBL was missing; the user's
\* link is still there and METGRID.TBL has been linked.
C8_Witness ==
  /\ tbl_op = "link_tbl_files"
  /\ tbl_before[GeogridTbl] = Link(UserTable)
  /\ tbl_before[MetgridTbl] = Absent
  /\ wd[GeogridTbl] = Link(UserTable)
  /\ wd[MetgridTbl] = Link(MetgridSrc)
  /\ tbl_error = "none"

(***************************************************************************)
(* Claims about the suite.rc builder, checked under SpecCylc.              *)
(***************************************************************************)
\* The executable tasks and the entry of options_slurm each reads.
ExecTasks == {"wrf_real", "wrf_run", "obsproc_run"}
EntryOf(task) ==
  IF task = "wrf_real" THEN config.slurm_real
  ELSE IF task = "wrf_run" THEN config.slurm_wrf
  ELSE config.slurm_obsproc

\* The runtime blocks rendered for a task.
BlocksOf(task) ==
  {suiterc[k] : k \in {j \in DOMAIN suiterc :
                         suiterc[j].section = "runtime" /\ suiterc[j].name = task}}

\* The section whose rendering raised, when the build has failed.
FailedAt ==
  IF Len(suiterc) < Len(RenderOrder) THEN RenderOrder[Len(suiterc) + 1] ELSE "write"

\* C9 as stated: a task's block has method slurm exactly when a non-empty
\* path is configured for it; with the empty string, or with no entry at all,
\* the build does not fail on the task and its block has method background
\* and empty directives.
C9_MissingFallsBack ==
  \A task \in ExecTasks :
    LET e == EntryOf(task) IN
      /\ \A b \in BlocksOf(task) :
           b.method = "slurm" <=> (e.kind = "str" /\ e.path # "")
      /\ (e.kind = "missing" \/ e.path = "") =>
           /\ ~(cylc_pc = "failed" /\ FailedAt = task)
           /\ \A b \in BlocksOf(task) : b.method = "background" /\ b.directives = << >>

\* C9, as the code has it: the rendered method of real, run and obsproc is
\* slurm exactly when the task's entry is a non-empty path, the directives
\* then being the lines of the script re-indented; with the empty string the
\* block is rendered without error, with method background and empty
\* directives; with the entry missing altogether the build fails on the task
\* with KeyError and no suite.rc is written, and a non-empty path without a
\* readable file fails it with IOError.
C9_MethodSelection ==
  \A task \in ExecTasks :
    LET e == EntryOf(task) IN
      /\ \A b \in BlocksOf(task) :
           /\ e.kind = "str"
           /\ b.method = "slurm" <=> e.path # ""
           /\ e.path # "" => b.directives = Reindent(ScriptLines(e.path))
           /\ e.path = "" => b.method = "background" /\ b.directives = << >>
      /\ (cylc_pc = "failed" /\ FailedAt = task) =>
           \/ e.kind = "missing" /\ cylc_error = "KeyError"
           \/ e.kind = "str" /\ e.path \notin ReadableScripts \cup {""}
                /\ cylc_error = "IOError"
      /\ e.kind = "missing" =>
           /\ cylc_pc \notin {"write", "done"}
           /\ written = written_before
           /\ BlocksOf(task) = {}
      /\ cylc_pc \in {"write", "done"} => Cardinality(BlocksOf(task)) = 1

\* C9's case: suite.rc has been written from a configuration with a batch
\* script for real and the empty string for wrf and obsproc.
C9_Witness ==
  /\ cylc_pc = "done"
  /\ config.slurm_real = StrEntry("job.slurm")
  /\ config.slurm_wrf = StrEntry("")
  /\ Block("wrf_real", "slurm", <<"#SBATCH -t 30", "      #SBATCH -n 24">>) \in BlocksOf("wrf_real")
  /\ Block("wrf_run", "background", << >>) \in BlocksOf("wrf_run")
  /\ written = suiterc

\* The scheduling sections rendered so far.
SchedulingSections ==
  {suiterc[k] : k \in {j \in DOMAIN suiterc : suiterc[j].section = "scheduling"}}

Edge(a, b) == <<Now(a), Now(b)>>

\* The edges the design states for the initial cycle.
InitialEdges ==
  {Edge("wrf_init", "wrf_real"), Edge("wrf_real", "wrfda"), Edge("wrfda", "wrf_run"),
   Edge("wrf_init", "obsproc_init"), Edge("obsproc_init", "obsproc_run"),
   Edge("obsproc_run", "wrfda")}

\* The dependency on the run task of an earlier cycle point.
PreviousRunEdge == <<Node("wrf_run", "-PT2H"), Now("wrf_init")>>

\* C10 as stated: the two graphs have the same tasks, and the repeating
\* graph's edges are the initial graph's edges plus the one edge from the
\* previous cycle's run to init.
C10_SameTasksOneMoreEdge ==
  \A sec \in SchedulingSections :
    /\ Edges(sec.initial.graph) = InitialEdges
    /\ Tasks(sec.repeating.graph) = Tasks(sec.initial.graph)
    /\ Edges(sec.repeating.graph) = Edges(sec.initial.graph) \cup {PreviousRunEdge}

\* C10, as the code has it: the initial graph is init -> real -> da -> run,
\* init -> obsInit -> obsRun -> da; the repeating graph has one task more,
\* copy_urb, and its edges are those of the initial graph with da -> run
\* replaced by da -> copy_urb -> run, plus the edge from the previous run
\* (wrf_run[-PT2H]) to init; nothing else differs.
C10_RepeatingGraph ==
  \A sec \in SchedulingSections :
    /\ Edges(sec.initial.graph) = InitialEdges
    /\ Tasks(sec.repeating.graph) = Tasks(sec.initial.graph) \cup {"copy_urb"}
    /\ "copy_urb" \notin Tasks(sec.initial.graph)
    /\ Edges(sec.repeating.graph) =
         ((Edges(sec.initial.graph) \ {Edge("wrfda", "wrf_run")})
            \cup {PreviousRunEdge, Edge("wrfda", "copy_urb"), Edge("copy_urb", "wrf_run")})

\* C10's case: the scheduling section has been rendered, for a first cycle
\* at hour 06 repeating every hour.
C10_Witness ==
  \E sec \in SchedulingSections :
    /\ sec.initial.recurrence = "R1/T06"
    /\ sec.repeating.recurrence = "+PT1H/PT1H"
    /\ PreviousRunEdge \in Edges(sec.repeating.graph)

\* The tasks named by the graphs of a document, initial and repeating.
GraphTasksOf(doc) ==
  UNION {Tasks(doc[k].initial.graph) \cup Tasks(doc[k].repeating.graph) :
           k \in {j \in DOMAIN doc : doc[j].section = "scheduling"}}

\* The names of the runtime blocks of a document.
RuntimeNamesOf(doc) ==
  {doc[k].name : k \in {j \in DOMAIN doc : doc[j].section = "runtime"}}

\* C11 as stated: in every suite.rc written, every task named in the initial
\* or the repeating graph has a runtime block of exactly that name, and every
\* runtime block other than root names a task of a graph.
C11_TaskNamesCoincide ==
  cylc_pc = "done" =>
    GraphTasksOf(written) = RuntimeNamesOf(written) \ {"root"}

\* C11, what the code writes instead: the graphs name wrf_init, obsproc_init
\* and copy_urb, for which no runtime block is rendered, and the runtime
\* block init names no task of either graph; the names agree on wrf_real,
\* wrf_run, obsproc_run and wrfda only.
C11_CodeNamesDiffer ==
  cylc_pc = "done" =>
    /\ GraphTasksOf(written) \ RuntimeNamesOf(written) =
         {"wrf_init", "obsproc_init", "copy_urb"}
    /\ RuntimeNamesOf(written) \ GraphTasksOf(written) = {"root", "init"}
    /\ GraphTasksOf(written) \cap RuntimeNamesOf(written) =
         {"wrf_real", "wrf_run", "obsproc_run", "wrfda"}

\* C11's case: a suite.rc has been written, with its scheduling section and
\* all six runtime blocks.
C11_Witness ==
  /\ cylc_pc = "done"
  /\ written = suiterc
  /\ Cardinality(RuntimeNamesOf(written)) = 6
  /\ "wrf_init" \in GraphTasksOf(written)
  /\ "init" \in RuntimeNamesOf(written)

=============================================================================
